---- MODULE Spec2Model ----
(***************************************************************************)
(* GNU Backgammon evaluation server (gnubg-server/app/main.py).            *)
(*                                                                         *)
(* Spec      : the engine manager GnuBgEngine as a state machine: start(), *)
(*             stop(), the /evaluate and /cube endpoints, the asyncio lock *)
(*             and the commands written to the subprocess.                 *)
(* SpecCodec : _make_position_id applied to boards built checker by        *)
(*             checker.                                                    *)
(* SpecParse : _parse_notation applied to notations built token by token.  *)
(***************************************************************************)
EXTENDS Integers, Sequences, FiniteSets, TLC

\* ------------------------------------------------------------------ bounds

\* request slots of the engine specification
NumReq == 2
\* checkers moved, added or removed on a seed board before it is encoded
MaxEdits == 3
\* tokens of a notation
MaxTokens == 2

\* the most ranked lines of a hint text handed to _parse_evaluation
MaxPlays == 2

\* the most times _transform_for_black is applied in a row
MaxApplications == 2

\* the evaluate calls of the stream specification, one after the other
MaxJobs == 2

\* the most labelled lines of a cube hint text handed to _parse_cube
MaxCubeLines == 3

\* the overall timeout of a _send, in line timeouts (10.0 / 0.5 = 20 in the code)
TimeoutTicks == 3

\* the most lines the engine writes before the clock moves
MaxBurst == 2

\* the commands the pipe and the write buffer take in before drain() waits
PipeRoom == 2

\* ------------------------------------------------------- program constants

\* EvaluateRequest.points has exactly 24 entries
NumPoints == 24
\* the position ID is truncated / padded to 80 bits
PosBits == 80
\* ... packed into bytearray(10)
PosBytes == 10
\* checkers per side
Checkers == 15
\* EvaluateRequest.ply / CubeRequest.ply default
DefaultPly == 2

VARIABLES
    process,    \* self.process: "none", "running" or "dead" (object kept, child gone)
    _ready,     \* self._ready
    version,    \* self.version: "unknown", "ver" (parsed from the banner) or "mock"
    launch,     \* how create_subprocess_exec ended: "none", "ok", "notfound", "error"
    lifePc,     \* position of lifespan: start() and stop()
    _lock,      \* self._lock: 0 when free, else the request holding it
    waiters,    \* the lock's FIFO of waiting requests
    wire,       \* who wrote which command to the subprocess stdin, in order
    rq,         \* the requests: position, parameters, locals, result
    board,      \* SpecCodec: the board handed to _make_position_id
    posOut,     \* SpecCodec: what _make_position_id computed for it
    notation,   \* SpecParse: the notation handed to _parse_notation
    parsed,     \* SpecParse: what _parse_notation computed for it
    hint,       \* SpecTransform: the ranked lines of a hint text
    result,     \* SpecTransform: what _parse_evaluation computed for them
    shown,      \* SpecTransform: the results of _transform_for_black, in order
    cubeText,   \* SpecCube: the labelled lines of a cube hint text
    cubeRes,    \* SpecCube: what _parse_cube computed for them
    send,       \* SpecSend: one _send at a time: position, lines read, clock
    pipe,       \* SpecSend: the commands written that the engine has not read
    alive,      \* SpecSend: the engine process runs
    job,        \* SpecStream: the evaluate call under way: command, lines read
    stdin,      \* SpecStream: the commands written that the engine has not taken
    stdout,     \* SpecStream: the lines the engine wrote that were not read yet
    gnubg,      \* SpecStream: the lines the engine has still to write
    answer,     \* SpecStream: the last _send: its command and the text it returned
    response    \* SpecStream: what the last evaluate call returned

engineVars == <<process, _ready, version, launch, lifePc, _lock, waiters, wire, rq>>

codecVars == <<board, posOut>>

parseVars == <<notation, parsed>>

xformVars == <<hint, result, shown>>

cubeVars == <<cubeText, cubeRes>>

sendVars == <<send, pipe, alive>>

streamVars == <<job, stdin, stdout, gnubg, answer, response>>

restVars == <<xformVars, cubeVars, sendVars, streamVars>>

vars == <<engineVars, codecVars, parseVars, restVars>>

Reqs == 1..NumReq

\* ------------------------------------------------------------ arithmetic

RECURSIVE SumSeq(_)
SumSeq(s) == IF s = <<>> THEN 0 ELSE Head(s) + SumSeq(Tail(s))

Max(a, b) == IF a >= b THEN a ELSE b

Min(a, b) == IF a <= b THEN a ELSE b

Abs(a) == IF a < 0 THEN -a ELSE a

RECURSIVE Pow2(_)
Pow2(n) == IF n <= 0 THEN 1 ELSE 2 * Pow2(n - 1)

\* [v] * n of Python: the empty list when n <= 0
Rep(v, n) == [i \in 1..n |-> v]

\* s[:n] of Python
Take(s, n) == SubSeq(s, 1, Min(n, Len(s)))

\* ------------------------------------------------------ the position codec
\* A board is points (24 signed counts, Python index i is position i + 1 here),
\* bar = <<white, black>> and borne_off = <<white, black>>.

\* sum(max(0, p) for p in req.points) + req.bar[0] + req.borne_off[0]
white_count(points, bar, borne_off) ==
    SumSeq([i \in 1..Len(points) |-> Max(0, points[i])]) + bar[1] + borne_off[1]

\* sum(max(0, -p) for p in req.points) + req.bar[1] + req.borne_off[1]
black_count(points, bar, borne_off) ==
    SumSeq([i \in 1..Len(points) |-> Max(0, -points[i])]) + bar[2] + borne_off[2]

\* the mutant: the two comparisons joined by "and"
CountsInvalidAnd(points, bar, borne_off) ==
    /\ white_count(points, bar, borne_off) # Checkers
    /\ black_count(points, bar, borne_off) # Checkers

\* if white_count != 15 or black_count != 15
CountsInvalid(points, bar, borne_off) ==
    \/ white_count(points, bar, borne_off) # Checkers
    \/ black_count(points, bar, borne_off) # Checkers

\* for i in range(24): count = max(0, points[i]); bits.extend([1] * count); bits.append(0)
RECURSIVE WhiteRuns(_, _)
WhiteRuns(points, i) ==
    IF i > NumPoints THEN <<>>
    ELSE Rep(1, Max(0, points[i])) \o <<0>> \o WhiteRuns(points, i + 1)

\* the mutant: black's points walked in ascending order like white's
RECURSIVE BlackRunsAscending(_, _)
BlackRunsAscending(points, i) ==
    IF i < 1 THEN <<>>
    ELSE Rep(1, Max(0, -points[NumPoints + 1 - i])) \o <<0>>
             \o BlackRunsAscending(points, i - 1)

\* for i in range(23, -1, -1): count = max(0, -points[i]); ...
RECURSIVE BlackRuns(_, _)
BlackRuns(points, i) ==
    IF i < 1 THEN <<>>
    ELSE Rep(1, Max(0, -points[i])) \o <<0>> \o BlackRuns(points, i - 1)

\* the runs of both sides, each followed by its bar run, before truncation
PositionRuns(points, bar) ==
    WhiteRuns(points, 1) \o Rep(1, bar[1]) \o <<0>>
        \o BlackRuns(points, NumPoints) \o Rep(1, bar[2]) \o <<0>>

\* the mutant: padding without truncation
PadOnly(bits) == IF Len(bits) < PosBits THEN bits \o Rep(0, PosBits - Len(bits)) ELSE bits

\* bits = (bits + [0] * 80)[:80]
TruncPad(bits) == Take(bits \o Rep(0, PosBits), PosBits)

\* data = bytearray(10); for i, bit in enumerate(bits): if bit: data[i // 8] |= 1 << (i % 8)
\* (a bit index past the tenth byte is an IndexError in Python; TruncPad rules it out)
PackBytes(bits) ==
    [j \in 1..PosBytes |->
        SumSeq([b \in 1..8 |->
            IF 8 * (j - 1) + b <= Len(bits) /\ bits[8 * (j - 1) + b] # 0
            THEN Pow2(b - 1) ELSE 0])]

\* bit p (0-based, most significant first) of the byte string, 0 past its end
StreamBit(data, p) ==
    IF p >= 8 * Len(data) THEN 0
    ELSE (data[(p \div 8) + 1] \div Pow2(7 - (p % 8))) % 2

\* base64.b64encode(data).decode('ascii').rstrip('='): one alphabet index (0..63)
\* per output character; the '=' padding is stripped
Base64(data) ==
    [s \in 1..((8 * Len(data) + 5) \div 6) |->
        SumSeq([t \in 1..6 |-> StreamBit(data, 6 * (s - 1) + t - 1) * Pow2(6 - t)])]

PositionBits(points, bar) == TruncPad(PositionRuns(points, bar))

PositionData(points, bar) == PackBytes(PositionBits(points, bar))

_make_position_id(points, bar) == Base64(PositionData(points, bar))

\* ---------------------------------------------------- the notation parser
\* A notation is a sequence of tokens; a token is its '/'-separated segments and
\* its "(n)" repeat count (1 when absent); a segment is a number, "bar" or
\* "off", with or without the hit marker '*'.

Seg(kind, n, star) == [kind |-> kind, n |-> n, star |-> star]

Num(n) == Seg("num", n, FALSE)

Token(segs, count) == [segs |-> segs, count |-> count]

MoveResponse(from_pt, to_pt, die, hit, bear_off) ==
    [from_point |-> from_pt, to_point |-> to_pt, die_used |-> die,
     is_hit |-> hit, is_bear_off |-> bear_off]

\* int(from_str) raises for anything but a number: from_str is "off";
\* int(to_str) raises when to_str is "bar"
PairRaises(from, to) == from.kind = "off" \/ to.kind = "bar"

\* one adjacent pair of segments: the hit marker counts on the destination only,
\* "bar" is point 0, a bear-off has to-point 0 and the from-point as its die
PairMove(from, to) ==
    LET from_pt == IF from.kind = "bar" THEN 0 ELSE from.n
        bear_off == to.kind = "off"
    IN  IF bear_off
        THEN MoveResponse(from_pt, 0, from_pt, to.star, TRUE)
        ELSE MoveResponse(from_pt, to.n, Abs(from_pt - to.n), to.star, FALSE)

\* for i in range(len(segments) - 1): ... for _ in range(count): moves.append(...)
RECURSIVE TokenMoves(_, _)
TokenMoves(tok, i) ==
    IF i >= Len(tok.segs) THEN <<>>
    ELSE Rep(PairMove(tok.segs[i], tok.segs[i + 1]), tok.count) \o TokenMoves(tok, i + 1)

TokenRaises(tok) ==
    \E i \in 1..(Len(tok.segs) - 1) : PairRaises(tok.segs[i], tok.segs[i + 1])

\* for part in notation.split(): ...   (the first loop of _parse_notation)
RECURSIVE RawMoves(_)
RawMoves(nota) ==
    IF nota = <<>> THEN <<>> ELSE TokenMoves(Head(nota), 1) \o RawMoves(Tail(nota))

NotationRaises(nota) == \E t \in 1..Len(nota) : TokenRaises(nota[t])

\* for d1 in range(1, 7): d2 = total - d1; if 1 <= d2 <= 6: ...; break
\* 0 when the loop ends without a split
RECURSIVE FirstSplit(_, _)
FirstSplit(total, d1) ==
    IF d1 > 6 THEN 0
    ELSE IF 1 <= total - d1 /\ total - d1 <= 6 THEN d1
    ELSE FirstSplit(total, d1 + 1)

\* the mutant: both halves of a split move carry the hit flag
SplitMoveHitBoth(m) ==
    IF m.die_used > 6 /\ ~m.is_bear_off /\ m.die_used <= 12
    THEN LET d1 == FirstSplit(m.die_used, 1)
             mid_pt == IF m.to_point > m.from_point
                       THEN m.from_point + d1 ELSE m.from_point - d1
         IN  << MoveResponse(m.from_point, mid_pt, d1, m.is_hit, FALSE),
                MoveResponse(mid_pt, m.to_point, m.die_used - d1, m.is_hit, FALSE) >>
    ELSE <<m>>

\* the post-processing of one move: a die above 6 that is no bear-off is split
\* when it is at most 12, and kept as it is otherwise
SplitMove(m) ==
    IF m.die_used > 6 /\ ~m.is_bear_off
    THEN IF m.die_used <= 12
         THEN LET d1 == FirstSplit(m.die_used, 1)
                  mid_pt == IF m.to_point > m.from_point
                            THEN m.from_point + d1 ELSE m.from_point - d1
              IN  IF d1 = 0 THEN <<>>
                  ELSE << MoveResponse(m.from_point, mid_pt, d1, FALSE, FALSE),
                          MoveResponse(mid_pt, m.to_point, m.die_used - d1,
                                       m.is_hit, FALSE) >>
         ELSE <<m>>
    ELSE <<m>>

\* for m in moves: ...   (the second loop of _parse_notation)
RECURSIVE ProcessMoves(_)
ProcessMoves(moves) ==
    IF moves = <<>> THEN <<>> ELSE SplitMove(Head(moves)) \o ProcessMoves(Tail(moves))

\* _parse_notation: the moves before and after the split step, or the ValueError
_parse_notation(nota) ==
    IF NotationRaises(nota)
    THEN [stage |-> "raised", raw |-> <<>>, moves |-> <<>>]
    ELSE [stage |-> "parsed", raw |-> RawMoves(nota), moves |-> ProcessMoves(RawMoves(nota))]

\* ---------------------------------------------------------- sample boards

\* the starting position: white on 24, 13, 8, 6; black mirrored on 1, 12, 17, 19
StartPoints ==
    [i \in 1..NumPoints |->
        CASE i = 24 -> 2 [] i = 13 -> 5 [] i = 8 -> 3 [] i = 6 -> 5
          [] i = 1 -> -2 [] i = 12 -> -5 [] i = 17 -> -3 [] i = 19 -> -5
          [] OTHER -> 0]

EmptyPoints == [i \in 1..NumPoints |-> 0]

Board(points, bar, borne_off, dice) ==
    [points |-> points, bar |-> bar, borne_off |-> borne_off, dice |-> dice]

\* the boards requests carry: the starting position, and the starting position
\* with one white checker missing (14 white, 15 black)
ReqBoards ==
    << Board(StartPoints, <<0, 0>>, <<0, 0>>, <<3, 1>>),
       Board([StartPoints EXCEPT ![24] = 1], <<0, 0>>, <<0, 0>>, <<3, 1>>) >>

\* position_id = self._make_position_id(req) for each of the boards
PositionIds ==
    [i \in 1..Len(ReqBoards) |-> _make_position_id(ReqBoards[i].points, ReqBoards[i].bar)]

\* the player tags a request may carry (player: str, not validated)
Players == {"white", "black", "red"}

Kinds == {"evaluate", "cube"}

\* ------------------------------------------------------------ the engine

\* A request: pc is "idle" (not yet arrived), "waiting" (queued on the lock),
\* "sent" (command k written, its response awaited), "ret" (engine call returned,
\* result in outcome) or "done" (response delivered).  log holds the commands
\* the request wrote, with their arguments; illegal is "Illegal" in set_result;
\* output is the hint text; fault (an exception was caught), timedOut (which reads
\* ran into their overall deadline: "none", "setup" for a command before the hint,
\* "hint", or "both") and acquired (the lock was taken) record what happened.
IdleReq ==
    [pc |-> "idle", k |-> 0, kind |-> "none", player |-> "none", board |-> 0,
     log |-> <<>>, illegal |-> FALSE, output |-> "none", fault |-> FALSE,
     timedOut |-> "none", acquired |-> FALSE, outcome |-> "none"]

DoneReq == [IdleReq EXCEPT !.pc = "done"]

\* the mutant: the readiness property always answers True
is_ready_always == TRUE

\* @property is_ready
is_ready == _ready

\* the /health answer
health ==
    [status |-> IF is_ready THEN "ok" ELSE "starting",
     gnubg_version |-> version, engine_ready |-> is_ready]

\* the mutant: the mock shortcut of evaluate / evaluate_cube never taken
MockModeNever == FALSE

\* if self.version == "mock"
MockMode == version = "mock"

\* the mutant: the lock never reports itself taken
lockedNever == FALSE

\* asyncio.Lock.locked()
locked == _lock # 0

Cmd(name, arg) == [cmd |-> name, arg |-> arg]

\* an entry of the wire: the writer (0 is start() / stop()) and the command
Wrote(r, name) == [req |-> r, cmd |-> name]

\* turn = 0 if req.player == "white" else 1
Turn(player) == IF player = "white" THEN 0 ELSE 1

\* the mutant: the dice are set before the turn
EvalCmdDiceFirst(q, k) ==
    LET b == ReqBoards[q.board] IN
    CASE k = 1 -> Cmd("set evaluation chequer eval plies", <<DefaultPly>>)
      [] k = 2 -> Cmd("new game", <<>>)
      [] k = 3 -> Cmd("set board", PositionIds[q.board])
      [] k = 4 -> Cmd("set dice", b.dice)
      [] k = 5 -> Cmd("show board", <<>>)
      [] k = 6 -> Cmd("set turn", <<Turn(q.player)>>)
      [] OTHER -> Cmd("hint", <<>>)

\* the k-th command of evaluate
EvalCmd(q, k) ==
    LET b == ReqBoards[q.board] IN
    CASE k = 1 -> Cmd("set evaluation chequer eval plies", <<DefaultPly>>)
      [] k = 2 -> Cmd("new game", <<>>)
      [] k = 3 -> Cmd("set board", PositionIds[q.board])
      [] k = 4 -> Cmd("set turn", <<Turn(q.player)>>)
      [] k = 5 -> Cmd("show board", <<>>)
      [] k = 6 -> Cmd("set dice", b.dice)
      [] OTHER -> Cmd("hint", <<>>)

\* the k-th command of evaluate_cube (commands 3..6 are _setup_position's)
CubeCmd(q, k) ==
    LET b == ReqBoards[q.board] IN
    CASE k = 1 -> Cmd("set evaluation cubedecision eval plies", <<DefaultPly>>)
      [] k = 2 -> Cmd("new game", <<>>)
      [] k = 3 -> Cmd("set turn", <<0>>)
      [] k = 4 -> Cmd("clear board", <<>>)
      [] k = 5 -> Cmd("set board", PositionIds[q.board])
      [] k = 6 -> Cmd("set turn", <<Turn(q.player)>>)
      [] OTHER -> Cmd("hint cube", <<>>)

CmdOf(q, k) == IF q.kind = "evaluate" THEN EvalCmd(q, k) ELSE CubeCmd(q, k)

LastCmd == 7

\* _send: stdin.write + drain go through while the process object has a pipe (a
\* write to a child that is gone may still be buffered and lost) ...
CanWrite == process \in {"running", "dead"}

\* ... and raise RuntimeError without a process, or a broken pipe once the child is gone
WriteRaises == process \in {"none", "dead"}

\* What _read_until_prompt returns, as the markers the callers look for:
\* "" (no line at all), "plain", "Illegal" (contains the word), "Eq" (numbered
\* plays with the equity marker), "EqNoPlay" (the marker but no line the play
\* pattern matches), "EqBad" (a play whose notation makes int() raise).
Texts(name) ==
    CASE name = "set board" -> {"", "plain", "Illegal"}
      [] name = "hint" -> {"", "plain", "Eq", "EqNoPlay", "EqBad"}
      [] OTHER -> {"", "plain"}

\* How the read ended: a prompt line, an idle line timeout after some line, the
\* overall deadline, or end of stream (the child is gone).  The first two need a line.
Responses(name) ==
    {resp \in [end : IF process = "running" THEN {"prompt", "idle", "deadline"} ELSE {"eof"},
               text : Texts(name)] :
        resp.end \in {"prompt", "idle"} => resp.text # ""}

\* the mutant: the except clause lets the exception through
OnExceptionRaise(q) == "error"

\* except Exception: return self._mock_evaluate(req) / self._mock_cube()
OnException(q) == "mock"

\* the mutant: the return leaves the lock as it is
ReturnHolding(r, q, res, held) ==
    /\ rq' = [rq EXCEPT ![r] = [q EXCEPT !.pc = "ret", !.outcome = res]]
    /\ _lock' = _lock
    /\ wire' = wire

\* the request returns: the result is set, and the async with block releases the lock
Return(r, q, res, held) ==
    /\ rq' = [rq EXCEPT ![r] = [q EXCEPT !.pc = "ret", !.outcome = res]]
    /\ _lock' = IF held THEN 0 ELSE _lock
    /\ wire' = wire

\* _send(cmd) up to its await on the response
Send(r, q, k) ==
    \/ /\ CanWrite
       /\ wire' = Append(wire, Wrote(r, CmdOf(q, k).cmd))
       /\ rq' = [rq EXCEPT ![r] = [q EXCEPT !.pc = "sent", !.k = k,
                                            !.log = Append(@, CmdOf(q, k))]]
       /\ _lock' = r
    \/ /\ WriteRaises
       /\ Return(r, [q EXCEPT !.fault = TRUE], OnException(q), TRUE)

\* if not output or "Eq.:" not in output
NoValidHint(output) == output = "" \/ output \notin {"Eq", "EqNoPlay", "EqBad"}

\* if "Illegal" in set_result
IsIllegal(set_result) == set_result = "Illegal"

\* async with self._lock: ... up to the first await of evaluate / evaluate_cube
Enter(r, q0) ==
    LET q == [q0 EXCEPT !.acquired = TRUE]
        b == ReqBoards[q.board]
    IN  IF q.kind = "evaluate" /\ CountsInvalid(b.points, b.bar, b.borne_off)
        THEN Return(r, q, "mock", TRUE)
        ELSE Send(r, q, 1)

\* evaluate after the response to its command k
EvalAfter(r, q, k, text) ==
    CASE k = 3 ->
            LET q1 == [q EXCEPT !.illegal = (text = "Illegal")] IN
            IF IsIllegal(text) THEN Return(r, q1, "mock", TRUE) ELSE Send(r, q1, 4)
      [] k = LastCmd ->
            LET q1 == [q EXCEPT !.output = text] IN
            IF NoValidHint(text) THEN Return(r, q1, "mock", TRUE)
            ELSE IF text = "EqBad" THEN Return(r, q1, OnException(q1), TRUE)
            ELSE IF q.player = "black" THEN Return(r, q1, "transformed", TRUE)
            ELSE Return(r, q1, "parsed", TRUE)
      [] OTHER -> Send(r, q, k + 1)

\* evaluate_cube after the response to its command k; _setup_position drops the
\* response to "set board" (illegal only records what the engine said)
CubeAfter(r, q, k, text) ==
    IF k = LastCmd THEN Return(r, [q EXCEPT !.output = text], "cube", TRUE)
    ELSE Send(r, [q EXCEPT !.illegal = @ \/ (CubeCmd(q, k).cmd = "set board"
                                             /\ text = "Illegal")], k + 1)

\* A request that has returned is handed to its caller in the same step of the
\* event loop (no await lies between the return of evaluate and the endpoint's
\* own return), so nothing else runs while a result is in "ret".
NoneReturning == \A r \in Reqs : rq[r].pc # "ret"

\* lifespan runs stop() once the server has finished the requests in flight
\* and serves no more
NoneInFlight == \A r \in Reqs : rq[r].pc \notin {"waiting", "sent"}

Serving == lifePc \notin {"quitting", "stopped"}

\* timedOut after one more read that ran into its deadline
TimedOutAfter(old, name) ==
    LET new == IF name \in {"hint", "hint cube"} THEN "hint" ELSE "setup" IN
    IF old = "none" \/ old = new THEN new ELSE "both"

\* ---- lifespan: start() and stop()

\* create_subprocess_exec: the child runs, or FileNotFoundError (mock mode), or
\* another launch error, which start() does not catch
StartLaunch ==
    /\ NoneReturning
    /\ lifePc = "notstarted"
    /\ \/ /\ launch' = "ok"
          /\ process' = "running"
          /\ lifePc' = "banner"
          /\ UNCHANGED <<_ready, version>>
       \/ /\ launch' = "notfound"
          /\ _ready' = TRUE
          /\ version' = "mock"
          /\ lifePc' = "started"
          /\ UNCHANGED process
       \/ /\ launch' = "error"
          /\ lifePc' = "failed"
          /\ UNCHANGED <<process, _ready, version>>
    /\ UNCHANGED <<_lock, waiters, wire, rq>>
    /\ UNCHANGED <<codecVars, parseVars, restVars>>

\* a _send of start(): written, or the exception ends start() and the service
StartSend(name, next) ==
    \/ /\ CanWrite
       /\ wire' = Append(wire, Wrote(0, name))
       /\ lifePc' = next
    \/ /\ WriteRaises
       /\ wire' = wire
       /\ lifePc' = "failed"

\* the banner read ends; the version is taken from it when the pattern matches;
\* the first default search depth is sent
StartBanner ==
    /\ NoneReturning
    /\ lifePc = "banner"
    /\ \E resp \in Responses("banner") :
          version' \in IF resp.text = "" THEN {version} ELSE {version, "ver"}
    /\ StartSend("set evaluation chequer eval plies", "depth1")
    /\ UNCHANGED <<process, _ready, launch, _lock, waiters, rq>>
    /\ UNCHANGED <<codecVars, parseVars, restVars>>

StartDepth1 ==
    /\ NoneReturning
    /\ lifePc = "depth1"
    /\ StartSend("set evaluation cubedecision eval plies", "depth2")
    /\ UNCHANGED <<process, _ready, version, launch, _lock, waiters, rq>>
    /\ UNCHANGED <<codecVars, parseVars, restVars>>

\* self._ready = True
StartDepth2 ==
    /\ NoneReturning
    /\ lifePc = "depth2"
    /\ _ready' = TRUE
    /\ lifePc' = "started"
    /\ UNCHANGED <<process, version, launch, _lock, waiters, wire, rq>>
    /\ UNCHANGED <<codecVars, parseVars, restVars>>

\* stop(): with a process, "quit" is sent (a failure is ignored) and the process
\* terminated; without one nothing happens
Stop ==
    /\ NoneReturning
    /\ NoneInFlight
    /\ lifePc = "started"
    /\ \/ /\ process = "none"
          /\ lifePc' = "stopped"
          /\ UNCHANGED <<process, wire>>
       \/ /\ process # "none"
          /\ CanWrite
          /\ wire' = Append(wire, Wrote(0, "quit"))
          /\ lifePc' = "quitting"
          /\ UNCHANGED process
       \/ /\ process # "none"
          /\ WriteRaises
          /\ process' = "dead"
          /\ lifePc' = "stopped"
          /\ UNCHANGED wire
    /\ UNCHANGED <<_ready, version, launch, _lock, waiters, rq>>
    /\ UNCHANGED <<codecVars, parseVars, restVars>>

\* the read after "quit" ends; self.process.terminate()
StopTerminate ==
    /\ NoneReturning
    /\ lifePc = "quitting"
    /\ process' = "dead"
    /\ lifePc' = "stopped"
    /\ UNCHANGED <<_ready, version, launch, _lock, waiters, wire, rq>>
    /\ UNCHANGED <<codecVars, parseVars, restVars>>

\* the child exits on its own
Crash ==
    /\ NoneReturning
    /\ process = "running"
    /\ process' = "dead"
    /\ UNCHANGED <<_ready, version, launch, lifePc, _lock, waiters, wire, rq>>
    /\ UNCHANGED <<codecVars, parseVars, restVars>>

\* ---- the endpoints

\* POST /evaluate or /cube: the readiness gate, the mock shortcut, then the lock:
\* taken at once when free and nobody queues, else the request queues
Arrive(r, kind, player, b) ==
    /\ NoneReturning
    /\ Serving
    /\ rq[r].pc = "idle"
    /\ \A s \in Reqs : s < r => rq[s].pc # "idle"
    /\ LET q == [rq[r] EXCEPT !.kind = kind, !.player = player, !.board = b] IN
        IF ~is_ready
        THEN Return(r, q, "not_ready", FALSE) /\ UNCHANGED waiters
        ELSE IF MockMode
        THEN Return(r, q, "mock", FALSE) /\ UNCHANGED waiters
        ELSE IF ~locked /\ waiters = <<>>
        THEN Enter(r, q) /\ UNCHANGED waiters
        ELSE /\ rq' = [rq EXCEPT ![r] = [q EXCEPT !.pc = "waiting"]]
             /\ waiters' = Append(waiters, r)
             /\ UNCHANGED <<_lock, wire>>
    /\ UNCHANGED <<process, _ready, version, launch, lifePc>>
    /\ UNCHANGED <<codecVars, parseVars, restVars>>

\* the first waiter is woken by the release and takes the lock
Acquire(r) ==
    /\ NoneReturning
    /\ rq[r].pc = "waiting"
    /\ ~locked
    /\ waiters # <<>>
    /\ Head(waiters) = r
    /\ waiters' = Tail(waiters)
    /\ Enter(r, rq[r])
    /\ UNCHANGED <<process, _ready, version, launch, lifePc>>
    /\ UNCHANGED <<codecVars, parseVars, restVars>>

\* the response read of command k ends and the request runs on to its next await
Recv(r) ==
    /\ NoneReturning
    /\ rq[r].pc = "sent"
    /\ LET name == CmdOf(rq[r], rq[r].k).cmd IN
       \E resp \in Responses(name) :
          LET q == [rq[r] EXCEPT
                      !.timedOut = IF resp.end = "deadline"
                                    THEN TimedOutAfter(@, name) ELSE @] IN
          IF q.kind = "evaluate"
          THEN EvalAfter(r, q, q.k, resp.text)
          ELSE CubeAfter(r, q, q.k, resp.text)
    /\ UNCHANGED <<process, _ready, version, launch, lifePc, waiters>>
    /\ UNCHANGED <<codecVars, parseVars, restVars>>

\* the endpoint hands the result (or the 503) to the caller
Respond(r) ==
    /\ rq[r].pc = "ret"
    /\ rq' = [rq EXCEPT ![r] = DoneReq]
    /\ UNCHANGED <<process, _ready, version, launch, lifePc, _lock, waiters, wire>>
    /\ UNCHANGED <<codecVars, parseVars, restVars>>

\* the values of the variables a specification does not use
NoBoard == [points |-> EmptyPoints, bar |-> <<0, 0>>, borne_off |-> <<0, 0>>, edits |-> 0]

NoOut == [stage |-> "none", bits |-> <<>>, data |-> <<>>, id |-> <<>>]

NoParse == [stage |-> "none", raw |-> <<>>, moves |-> <<>>]

NoResult == [stage |-> "none"]

\* no _send under way: pc is "idle", "drain" (command written, drain awaited) or
\* "read" (in _read_until_prompt); parts are the lines read, clock the time since
\* the read began (in line timeouts of 0.5 s), burst the lines read since the
\* clock last moved, seen what has happened in the read, ended how the last
\* _send ended and text what it returned
NoSend ==
    [pc |-> "idle", parts |-> <<>>, clock |-> 0, burst |-> 0, seen |-> {},
     ended |-> "none", text |-> <<>>]

\* no evaluate call under way: n counts the calls begun, k is the command of
\* the call that was written last, pc is "idle" or "read", parts the lines read
NoJob == [n |-> 0, player |-> "none", illegal |-> FALSE, k |-> 0, pc |-> "idle", parts |-> <<>>]

NoAnswer == [of |-> <<0, 0>>, text |-> <<>>]

StreamIdle ==
    /\ job = NoJob
    /\ stdin = <<>>
    /\ stdout = <<>>
    /\ gnubg = <<>>
    /\ answer = NoAnswer
    /\ response = NoResult

\* nothing handed to _parse_evaluation or _transform_for_black
RestIdle ==
    /\ StreamIdle
    /\ hint = <<>>
    /\ result = NoResult
    /\ shown = <<>>
    /\ cubeText = <<>>
    /\ cubeRes = NoResult
    /\ send = NoSend
    /\ pipe = 0
    /\ alive = TRUE

\* the engine before start()
EngineIdle ==
    /\ process = "none"
    /\ _ready = FALSE
    /\ version = "unknown"
    /\ launch = "none"
    /\ lifePc = "notstarted"
    /\ _lock = 0
    /\ waiters = <<>>
    /\ wire = <<>>
    /\ rq = [r \in Reqs |-> IdleReq]

Init ==
    /\ board = NoBoard
    /\ posOut = NoOut
    /\ notation = <<>>
    /\ parsed = NoParse
    /\ RestIdle
    /\ EngineIdle

Next ==
    \/ StartLaunch
    \/ StartBanner
    \/ StartDepth1
    \/ StartDepth2
    \/ Stop
    \/ StopTerminate
    \/ Crash
    \/ \E r \in Reqs, kind \in Kinds, player \in Players, b \in 1..Len(ReqBoards) :
          Arrive(r, kind, player, b)
    \/ \E r \in Reqs : Acquire(r)
    \/ \E r \in Reqs : Recv(r)
    \/ \E r \in Reqs : Respond(r)

Spec == Init /\ [][Next]_vars

\* ------------------------------------------- _make_position_id on its own

\* the places a checker is put on or taken from: the bar (0), four of the 24
\* points, and off the board (25)
CodecPlaces == {0, 1, 13, 19, 24, 25}

White == 1

Black == 2

Other(side) == 3 - side

\* the checkers of a side at a place
At(b, side, place) ==
    IF place = 0 THEN b.bar[side]
    ELSE IF place = NumPoints + 1 THEN b.borne_off[side]
    ELSE IF side = White THEN Max(0, b.points[place]) ELSE Max(0, -b.points[place])

\* the board with d more checkers of a side at a place, one edit later
Put(b, side, place, d) ==
    IF place = 0 THEN [b EXCEPT !.bar[side] = @ + d]
    ELSE IF place = NumPoints + 1 THEN [b EXCEPT !.borne_off[side] = @ + d]
    ELSE [b EXCEPT !.points[place] = IF side = White THEN @ + d ELSE @ - d]

\* a point holds the checkers of one side only
Free(b, side, place) ==
    place \in 1..NumPoints => At(b, Other(side), place) = 0

\* the boards the edits start from: everything borne off, and the starting position
SeedBoards ==
    { [points |-> EmptyPoints, bar |-> <<0, 0>>,
       borne_off |-> <<Checkers, Checkers>>, edits |-> 0],
      [points |-> StartPoints, bar |-> <<0, 0>>, borne_off |-> <<0, 0>>, edits |-> 0] }

\* a request's board differs from another's by where one checker is
MoveChecker(side, from, to) ==
    /\ posOut.stage = "none"
    /\ board.edits < MaxEdits
    /\ from # to
    /\ At(board, side, from) > 0
    /\ Free(board, side, to)
    /\ board' = [Put(Put(board, side, from, -1), side, to, 1) EXCEPT !.edits = @ + 1]
    /\ UNCHANGED <<posOut, engineVars, parseVars, restVars>>

\* ... or holds one checker more than the 15 a side has
AddChecker(side, to) ==
    /\ posOut.stage = "none"
    /\ board.edits < MaxEdits
    /\ to # NumPoints + 1
    /\ Free(board, side, to)
    /\ board' = [Put(board, side, to, 1) EXCEPT !.edits = @ + 1]
    /\ UNCHANGED <<posOut, engineVars, parseVars, restVars>>

\* pos_id = self._make_position_id(req.points, req.bar)
Encode ==
    /\ posOut.stage = "none"
    /\ posOut' = [stage |-> "encoded",
                  bits |-> PositionBits(board.points, board.bar),
                  data |-> PositionData(board.points, board.bar),
                  id |-> _make_position_id(board.points, board.bar)]
    /\ UNCHANGED <<board, engineVars, parseVars, restVars>>

InitCodec ==
    /\ board \in SeedBoards
    /\ posOut = NoOut
    /\ notation = <<>>
    /\ parsed = NoParse
    /\ RestIdle
    /\ EngineIdle

NextCodec ==
    \/ \E side \in {White, Black}, from \in CodecPlaces, to \in CodecPlaces :
          MoveChecker(side, from, to)
    \/ \E side \in {White, Black}, to \in CodecPlaces : AddChecker(side, to)
    \/ Encode

SpecCodec == InitCodec /\ [][NextCodec]_vars

\* --------------------------------------------- _parse_notation on its own

\* the notations of one token "<from>/<to>[*]": from the bar or a point, to a
\* point (hitting or not) or off
SingleMoves ==
    { <<Token(<<from, to>>, 1)>> :
        from \in {Seg("bar", 0, FALSE)} \cup {Num(n) : n \in 1..NumPoints},
        to \in {Seg("off", 0, FALSE)}
                \cup {Seg("num", n, star) : n \in 1..NumPoints, star \in BOOLEAN} }

\* further tokens: "20/24(3)", "24/18*/13", "6/off", "13/1*(2)" and the
\* malformed "off/3"
MoreTokens ==
    { Token(<<Num(20), Num(24)>>, 3),
      Token(<<Num(24), Seg("num", 18, TRUE), Num(13)>>, 1),
      Token(<<Num(6), Seg("off", 0, FALSE)>>, 1),
      Token(<<Num(13), Seg("num", 1, TRUE)>>, 2),
      Token(<<Seg("off", 0, FALSE), Num(3)>>, 1) }

\* the engine's line goes on with one more token
AddToken(tok) ==
    /\ parsed.stage = "none"
    /\ Len(notation) < MaxTokens
    /\ notation' = Append(notation, tok)
    /\ UNCHANGED <<parsed, engineVars, codecVars, restVars>>

\* play = self._parse_notation(notation)
ParseNotation ==
    /\ parsed.stage = "none"
    /\ parsed' = _parse_notation(notation)
    /\ UNCHANGED <<notation, engineVars, codecVars, restVars>>

InitParse ==
    /\ notation \in SingleMoves
    /\ parsed = NoParse
    /\ board = NoBoard
    /\ posOut = NoOut
    /\ RestIdle
    /\ EngineIdle

NextParse ==
    \/ \E tok \in MoreTokens : AddToken(tok)
    \/ ParseNotation

SpecParse == InitParse /\ [][NextParse]_vars

\* --------------------------- _parse_evaluation and _transform_for_black

PlayResponse(moves, nota) == [moves |-> moves, notation |-> nota]

\* equities and probabilities are counted in thousandths
RankedPlay(rank, play, equity, win_probability, equity_difference) ==
    [rank |-> rank, play |-> play, equity |-> equity,
     win_probability |-> win_probability, equity_difference |-> equity_difference]

EvaluateResponse(best_play, best_equity, all_plays) ==
    [best_play |-> best_play, best_equity |-> best_equity, all_plays |-> all_plays]

\* RankedPlay.win_probability: float = 0.5
DefaultWinProbability == 500

\* the text "No move"
NoMoveText == <<Token(<<Seg("text", 0, FALSE)>>, 1)>>

\* for m in move_pat.finditer(output): ... plays.append(RankedPlay(...))
RECURSIVE RankedPlays(_, _)
RankedPlays(lines, plays) ==
    IF lines = <<>> THEN plays
    ELSE LET l == Head(lines)
             play == PlayResponse(_parse_notation(l.notation).moves, l.notation)
             diff == IF l.rank = 1 THEN 0
                     ELSE IF plays # <<>> THEN plays[1].equity - l.equity ELSE 0
         IN  RankedPlays(Tail(lines),
                 Append(plays, RankedPlay(l.rank, play, l.equity,
                                          DefaultWinProbability, diff)))

\* _parse_evaluation on the lines move_pat matches: the ValueError of a
\* notation that does not parse, else the ranked plays, or the one play
\* "No move" with equity 0 when no line matched
_parse_evaluation(lines) ==
    IF \E i \in DOMAIN lines : NotationRaises(lines[i].notation)
    THEN [stage |-> "raised"]
    ELSE LET found == RankedPlays(lines, <<>>)
             plays == IF found = <<>>
                      THEN <<RankedPlay(1, PlayResponse(<<>>, NoMoveText), 0,
                                        DefaultWinProbability, 0)>>
                      ELSE found
         IN  [stage |-> "parsed",
              value |-> EvaluateResponse(plays[1].play, plays[1].equity, plays)]

\* the mutant: a bear-off destination is transformed like a point
transform_move_point_only(m) ==
    MoveResponse(IF m.from_point = 0 THEN 25 ELSE 25 - m.from_point,
                 25 - m.to_point, m.die_used, m.is_hit, m.is_bear_off)

\* transform_move: the bar (0) becomes 25, a point p becomes 25 - p, a
\* bear-off goes to the transformed from-point plus the die
transform_move(m) ==
    LET from_pt == IF m.from_point = 0 THEN 25 ELSE 25 - m.from_point
        to_pt == IF m.is_bear_off THEN from_pt + m.die_used ELSE 25 - m.to_point
    IN  MoveResponse(from_pt, to_pt, m.die_used, m.is_hit, m.is_bear_off)

\* f"{from_str}/{to_str}{'*' if m.is_hit else ''}"
MoveText(m) ==
    Token(<< IF m.from_point = 0 THEN Seg("bar", 0, FALSE) ELSE Num(m.from_point),
             IF m.is_bear_off THEN Seg("off", 0, m.is_hit)
             ELSE Seg("num", m.to_point, m.is_hit) >>, 1)

\* transform_play: the moves transformed, the notation written anew from them
transform_play(p) ==
    LET new_moves == [i \in DOMAIN p.moves |-> transform_move(p.moves[i])]
    IN  PlayResponse(new_moves, [i \in DOMAIN new_moves |-> MoveText(new_moves[i])])

\* the mutant: the equity keeps its sign
transform_ranked_same_sign(rp) ==
    RankedPlay(rp.rank, transform_play(rp.play), rp.equity,
               1000 - rp.win_probability, rp.equity_difference)

\* RankedPlay(rank=rp.rank, play=transform_play(rp.play), equity=-rp.equity,
\*            win_probability=1.0 - rp.win_probability,
\*            equity_difference=rp.equity_difference)
transform_ranked(rp) ==
    RankedPlay(rp.rank, transform_play(rp.play), -rp.equity,
               1000 - rp.win_probability, rp.equity_difference)

_transform_for_black(res) ==
    EvaluateResponse(transform_play(res.best_play), -res.best_equity,
                     [i \in DOMAIN res.all_plays |-> transform_ranked(res.all_plays[i])])

\* the notations of the hint lines: "13/7 8/2*", "bar/22 6/off", "24/18*/13",
\* "6/off 3/off", "24/20(2)", "24/15" and the malformed "off/3"
HintNotations ==
    { <<Token(<<Num(13), Num(7)>>, 1), Token(<<Num(8), Seg("num", 2, TRUE)>>, 1)>>,
      <<Token(<<Seg("bar", 0, FALSE), Num(22)>>, 1),
        Token(<<Num(6), Seg("off", 0, FALSE)>>, 1)>>,
      <<Token(<<Num(24), Seg("num", 18, TRUE), Num(13)>>, 1)>>,
      <<Token(<<Num(6), Seg("off", 0, FALSE)>>, 1),
        Token(<<Num(3), Seg("off", 0, FALSE)>>, 1)>>,
      <<Token(<<Num(24), Num(20)>>, 2)>>,
      <<Token(<<Num(24), Num(15)>>, 1)>>,
      <<Token(<<Seg("off", 0, FALSE), Num(3)>>, 1)>> }

\* the equities of the hint lines, in thousandths
HintEquities == {-123, 0, 250}

\* the hint text has one more ranked line
AddLine(nota, equity) ==
    /\ result.stage = "none"
    /\ Len(hint) < MaxPlays
    /\ hint' = Append(hint, [rank |-> Len(hint) + 1, notation |-> nota, equity |-> equity])
    /\ UNCHANGED <<result, shown, engineVars, codecVars, parseVars, cubeVars, sendVars, streamVars>>

\* result = self._parse_evaluation(output)
ParseEvaluation ==
    /\ result.stage = "none"
    /\ result' = _parse_evaluation(hint)
    /\ UNCHANGED <<hint, shown, engineVars, codecVars, parseVars, cubeVars, sendVars, streamVars>>

\* result = self._transform_for_black(result), on the parsed result and then
\* on what it returned
TransformForBlack ==
    /\ result.stage = "parsed"
    /\ Len(shown) < MaxApplications
    /\ shown' = Append(shown, _transform_for_black(
                     IF shown = <<>> THEN result.value ELSE shown[Len(shown)]))
    /\ UNCHANGED <<hint, result, engineVars, codecVars, parseVars, cubeVars, sendVars, streamVars>>

InitTransform ==
    /\ RestIdle
    /\ board = NoBoard
    /\ posOut = NoOut
    /\ notation = <<>>
    /\ parsed = NoParse
    /\ EngineIdle

NextTransform ==
    \/ \E nota \in HintNotations, equity \in HintEquities : AddLine(nota, equity)
    \/ ParseEvaluation
    \/ TransformForBlack

SpecTransform == InitTransform /\ [][NextTransform]_vars

\* ------------------------------------------------------------ _parse_cube

\* the labels the three searches look for: "No double", "Double ... take",
\* "Double ... pass", each followed on its line by a signed decimal number
CubeLabels == {"no_double", "double_take", "double_pass"}

\* the equities on the lines, in thousandths
CubeEquities == {-500, 0, 1000, 1200}

\* re.search: the lines carrying the label, of which the first one counts
LabelLines(lines, label) == {i \in DOMAIN lines : lines[i].label = label}

\* the mutant: every missing label counts as 0
CubeDefaultZero(label) == 0

\* ... if nd else 0.0 / ... if dt else 0.0 / ... if dp else 1.0
CubeDefault(label) == IF label = "double_pass" THEN 1000 ELSE 0

\* float(x.group(1)) if x else <default>
CubeEquity(lines, label) ==
    LET at == LabelLines(lines, label) IN
    IF at = {} THEN CubeDefault(label)
    ELSE lines[CHOOSE i \in at : \A j \in at : i <= j].equity

\* rec.replace("_", " ").title()
ProperAction(rec) ==
    CASE rec = "no_double" -> "No Double"
      [] rec = "double_take" -> "Double Take"
      [] OTHER -> "Double Pass"

CubeResponse(rec, nd_eq, dt_eq, dp_eq, action) ==
    [recommendation |-> rec, no_double_equity |-> nd_eq, double_take_equity |-> dt_eq,
     double_pass_equity |-> dp_eq, proper_cube_action |-> action]

_parse_cube(lines) ==
    LET nd_eq == CubeEquity(lines, "no_double")
        dt_eq == CubeEquity(lines, "double_take")
        dp_eq == CubeEquity(lines, "double_pass")
        best == Max(nd_eq, Max(dt_eq, dp_eq))
        rec == IF best = nd_eq THEN "no_double"
               ELSE IF best = dt_eq THEN "double_take"
               ELSE "double_pass"
    IN  CubeResponse(rec, nd_eq, dt_eq, dp_eq, ProperAction(rec))

\* the cube hint text has one more labelled line
AddCubeLine(label, equity) ==
    /\ cubeRes.stage = "none"
    /\ Len(cubeText) < MaxCubeLines
    /\ cubeText' = Append(cubeText, [label |-> label, equity |-> equity])
    /\ UNCHANGED <<cubeRes, engineVars, codecVars, parseVars, xformVars, sendVars, streamVars>>

\* return self._parse_cube(output)
ParseCube ==
    /\ cubeRes.stage = "none"
    /\ cubeRes' = [stage |-> "parsed", value |-> _parse_cube(cubeText)]
    /\ UNCHANGED <<cubeText, engineVars, codecVars, parseVars, xformVars, sendVars, streamVars>>

InitCube ==
    /\ RestIdle
    /\ board = NoBoard
    /\ posOut = NoOut
    /\ notation = <<>>
    /\ parsed = NoParse
    /\ EngineIdle

NextCube ==
    \/ \E label \in CubeLabels, equity \in CubeEquities : AddCubeLine(label, equity)
    \/ ParseCube

SpecCube == InitCube /\ [][NextCube]_vars

\* ------------------------------------------- _send and _read_until_prompt

\* the mutant: a line timeout ends the read whether or not a line was read
LineTimeoutEndsAlways(parts) == TRUE

\* except asyncio.TimeoutError: if parts: break
LineTimeoutEnds(parts) == parts # <<>>

\* the while condition: asyncio.get_event_loop().time() < deadline
BeforeDeadline(clock) == clock < TimeoutTicks

\* _send returns (or raises): the text is the lines joined
SendOver(how, parts, clock, seen) ==
    send' = [pc |-> "idle", parts |-> parts, clock |-> clock, burst |-> 0,
             seen |-> seen, ended |-> how, text |-> parts]

\* self.process.stdin.write(f"{cmd}\n".encode()): the command is buffered
\* (a write to a process that is gone is dropped)
BeginSend ==
    /\ send.pc = "idle"
    /\ send' = [NoSend EXCEPT !.pc = "drain"]
    /\ pipe' = IF alive THEN pipe + 1 ELSE pipe
    /\ UNCHANGED alive
    /\ UNCHANGED <<engineVars, codecVars, parseVars, xformVars, cubeVars, streamVars>>

\* await self.process.stdin.drain() returns: the buffer is below its mark
DrainReturns ==
    /\ send.pc = "drain"
    /\ pipe <= PipeRoom
    /\ send' = [send EXCEPT !.pc = "read"]
    /\ UNCHANGED <<pipe, alive>>
    /\ UNCHANGED <<engineVars, codecVars, parseVars, xformVars, cubeVars, streamVars>>

\* drain() raises once the process is gone; _send lets the exception through
DrainRaises ==
    /\ send.pc = "drain"
    /\ ~alive
    /\ SendOver("raised", <<>>, 0, {})
    /\ UNCHANGED <<pipe, alive>>
    /\ UNCHANGED <<engineVars, codecVars, parseVars, xformVars, cubeVars, streamVars>>

\* readline() gives a line within wait_time, at once (dt = 0) or as the clock
\* moves (dt = 1): it is appended, a line with "(gnubg)" ends the read, and so
\* does the while condition once the deadline is reached
ReadLine(line, dt) ==
    /\ send.pc = "read"
    /\ BeforeDeadline(send.clock)
    /\ alive
    /\ dt = 0 => send.burst < MaxBurst
    /\ LET parts == Append(send.parts, line)
           clock == send.clock + dt
           seen == send.seen
                     \cup (IF line = "prompt" THEN {"prompt"} ELSE {})
                     \cup (IF ~BeforeDeadline(clock) THEN {"deadline"} ELSE {})
       IN  IF line = "prompt" THEN SendOver("prompt", parts, clock, seen)
           ELSE IF ~BeforeDeadline(clock) THEN SendOver("deadline", parts, clock, seen)
           ELSE send' = [send EXCEPT !.parts = parts, !.clock = clock, !.seen = seen,
                                     !.burst = IF dt = 0 THEN @ + 1 ELSE 0]
    /\ UNCHANGED <<pipe, alive>>
    /\ UNCHANGED <<engineVars, codecVars, parseVars, xformVars, cubeVars, streamVars>>

\* asyncio.wait_for times out after wait_time = min(line_timeout, remaining):
\* the read ends if a line was read before, else it goes on until the deadline
ReadTimeout ==
    /\ send.pc = "read"
    /\ BeforeDeadline(send.clock)
    /\ alive
    /\ LET clock == send.clock + 1
           seen == send.seen
                     \cup (IF send.parts # <<>> THEN {"idle"} ELSE {"empty"})
                     \cup (IF ~BeforeDeadline(clock) THEN {"deadline"} ELSE {})
       IN  IF LineTimeoutEnds(send.parts) THEN SendOver("idle", send.parts, clock, seen)
           ELSE IF ~BeforeDeadline(clock)
           THEN SendOver("deadline", send.parts, clock, seen)
           ELSE send' = [send EXCEPT !.clock = clock, !.seen = seen, !.burst = 0]
    /\ UNCHANGED <<pipe, alive>>
    /\ UNCHANGED <<engineVars, codecVars, parseVars, xformVars, cubeVars, streamVars>>

\* readline() returns b"" (if not line: break), or raises and the outer except
\* logs the error: either way the stream is over and the lines so far are returned
ReadStreamOver(how) ==
    /\ send.pc = "read"
    /\ BeforeDeadline(send.clock)
    /\ how = "eof" => ~alive
    /\ SendOver(how, send.parts, send.clock, send.seen \cup {how})
    /\ UNCHANGED <<pipe, alive>>
    /\ UNCHANGED <<engineVars, codecVars, parseVars, xformVars, cubeVars, streamVars>>

\* the engine reads a command from its input
EngineReads ==
    /\ alive
    /\ pipe > 0
    /\ pipe' = pipe - 1
    /\ UNCHANGED <<send, alive>>
    /\ UNCHANGED <<engineVars, codecVars, parseVars, xformVars, cubeVars, streamVars>>

\* the engine process ends; what it has not read is lost
EngineExits ==
    /\ alive
    /\ alive' = FALSE
    /\ pipe' = 0
    /\ UNCHANGED send
    /\ UNCHANGED <<engineVars, codecVars, parseVars, xformVars, cubeVars, streamVars>>

\* the steps of _send that need nothing from the engine but time
SendStep ==
    \/ DrainReturns
    \/ DrainRaises
    \/ ReadTimeout
    \/ \E how \in {"eof", "error"} : ReadStreamOver(how)

InitSend ==
    /\ RestIdle
    /\ board = NoBoard
    /\ posOut = NoOut
    /\ notation = <<>>
    /\ parsed = NoParse
    /\ EngineIdle

NextSend ==
    \/ BeginSend
    \/ DrainReturns
    \/ DrainRaises
    \/ \E line \in {"plain", "prompt"}, dt \in {0, 1} : ReadLine(line, dt)
    \/ ReadTimeout
    \/ \E how \in {"eof", "error"} : ReadStreamOver(how)
    \/ EngineReads
    \/ EngineExits

SpecSend == InitSend /\ [][NextSend]_vars

\* ------------------------- evaluate over the engine's input and output streams

\* One evaluate call at a time (the lock), on a valid board, against an engine
\* that takes the commands in the order written and answers each with its
\* lines and then a prompt line, at its own pace.  A line carries the command
\* the engine wrote it for.

Line(of, kind, play) == [of |-> of, kind |-> kind, play |-> play]

\* the listing the engine writes for "hint": "1. ... 13/7 8/2*  Eq.: +0.250"
\* and "2. ... 24/15  Eq.: +0.000"
HintListing ==
    << [rank |-> 1, equity |-> 250,
        notation |-> <<Token(<<Num(13), Num(7)>>, 1),
                       Token(<<Num(8), Seg("num", 2, TRUE)>>, 1)>>],
       [rank |-> 2, equity |-> 0,
        notation |-> <<Token(<<Num(24), Num(15)>>, 1)>>] >>

\* what the engine writes for a command: the lines the callers look at ("Illegal"
\* for a rejected position, the ranked plays with "Eq.:" for a hint), a board
\* drawing for "show board", and the line with the prompt "(gnubg)"
Reply(c) ==
    LET body == CASE c.cmd = "hint" ->
                        [i \in DOMAIN HintListing |-> Line(c.of, "play", <<HintListing[i]>>)]
                  [] c.cmd = "set board" ->
                        IF c.illegal THEN <<Line(c.of, "Illegal", <<>>)>> ELSE <<>>
                  [] c.cmd = "show board" -> <<Line(c.of, "plain", <<>>)>>
                  [] OTHER -> <<>>
    IN  Append(body, Line(c.of, "prompt", <<>>))

\* if "Illegal" in set_result
IllegalIn(set_result) == \E i \in DOMAIN set_result : set_result[i].kind = "Illegal"

\* if not output or "Eq.:" not in output
NoEquityIn(output) == output = <<>> \/ ~\E i \in DOMAIN output : output[i].kind = "play"

\* move_pat.finditer(output): the lines of the text the pattern matches, with
\* their rank, notation and equity
Matches(output) ==
    LET found == SelectSeq(output, LAMBDA l : l.kind = "play")
    IN  [i \in DOMAIN found |-> found[i].play[1]]

\* occupied = the points holding the player's checkers
Occupied(points, player) ==
    {pt \in 1..NumPoints : \/ player = "white" /\ points[pt] > 0
                           \/ player = "black" /\ points[pt] < 0}

\* base_eq = random.uniform(-0.2, 0.5), in thousandths
MockBaseEquity == 300

\* random.uniform(0.01, 0.1), drawn once for the equity of the alternative ...
MockEquityDrop == 50

\* ... and once more for its equity_difference
MockDifference == 20

\* _mock_evaluate with the random choices src and src2 made
_mock_evaluate(b, player, src, src2) ==
    LET d1 == b.dice[1]
        d2 == b.dice[2]
        direction == IF player = "white" THEN -1 ELSE 1
        occupied == Occupied(b.points, player)
        OnBoard(pt) == 1 <= pt /\ pt <= NumPoints
        dest1 == src + d1 * direction
        dest2 == src + d2 * direction
        moves == (IF OnBoard(dest1)
                  THEN <<MoveResponse(src, dest1, d1, FALSE, FALSE)>> ELSE <<>>)
                 \o (IF OnBoard(dest2)
                     THEN <<MoveResponse(src, dest2, d2, FALSE, FALSE)>> ELSE <<>>)
        play == PlayResponse(moves, <<Token(<<Num(src), Num(dest1)>>, 1),
                                      Token(<<Num(src), Num(dest2)>>, 1)>>)
        d2_dest == src2 + d1 * direction
        alt == IF Cardinality(occupied) > 1 /\ OnBoard(d2_dest)
               THEN <<RankedPlay(2,
                        PlayResponse(<<MoveResponse(src2, d2_dest, d1, FALSE, FALSE)>>,
                                     <<Token(<<Num(src2), Num(d2_dest)>>, 1)>>),
                        MockBaseEquity - MockEquityDrop, DefaultWinProbability,
                        MockDifference)>>
               ELSE <<>>
        mock_plays ==
            IF occupied # {}
            THEN <<RankedPlay(1, play, MockBaseEquity, DefaultWinProbability, 0)>> \o alt
            ELSE <<RankedPlay(1, PlayResponse(<<>>, NoMoveText), 0,
                              DefaultWinProbability, 0)>>
    IN  EvaluateResponse(mock_plays[1].play, mock_plays[1].equity, mock_plays)

\* the board of every call of this specification
StreamBoard == ReqBoards[1]

\* the random choices of _mock_evaluate: src, and src2 among the other points
MockChoices(player) ==
    LET occupied == Occupied(StreamBoard.points, player)
    IN  IF Cardinality(occupied) > 1
        THEN {c \in occupied \X occupied : c[1] # c[2]}
        ELSE {<<pt, pt>> : pt \in occupied \cup {0}}

\* evaluate returns; the lock is released and the next call may begin
Finish(stage, value) ==
    /\ job' = [job EXCEPT !.pc = "idle", !.parts = <<>>]
    /\ response' = [stage |-> stage, value |-> value]
    /\ UNCHANGED stdin

\* return self._mock_evaluate(req)
FinishMock ==
    \E c \in MockChoices(job.player) :
        Finish("mock", _mock_evaluate(StreamBoard, job.player, c[1], c[2]))

\* _send(cmd): the command is written and the read of its response begins
Write(n, player, illegal, k) ==
    /\ stdin' = Append(stdin, [of |-> <<n, k>>, illegal |-> illegal,
                               cmd |-> EvalCmd([board |-> 1, player |-> player], k).cmd])
    /\ job' = [n |-> n, player |-> player, illegal |-> illegal, k |-> k,
               pc |-> "read", parts |-> <<>>]

\* evaluate is called: the first command is written (response is what the
\* call has returned: nothing yet)
Begin(player, illegal) ==
    /\ job.pc = "idle"
    /\ job.n < MaxJobs
    /\ Write(job.n + 1, player, illegal, 1)
    /\ response' = NoResult
    /\ UNCHANGED <<stdout, gnubg, answer>>
    /\ UNCHANGED <<engineVars, codecVars, parseVars, xformVars, cubeVars, sendVars>>

\* _read_until_prompt returns the text and evaluate runs on: to its next
\* _send, or to its return
SendReturns(text) ==
    /\ answer' = [of |-> <<job.n, job.k>>, text |-> text]
    /\ IF job.k = 3 /\ IllegalIn(text) THEN FinishMock
       ELSE IF job.k < LastCmd
       THEN Write(job.n, job.player, job.illegal, job.k + 1) /\ UNCHANGED response
       ELSE IF NoEquityIn(text) THEN FinishMock
       ELSE LET parsedResult == _parse_evaluation(Matches(text)) IN
            IF parsedResult.stage = "raised" THEN FinishMock
            ELSE IF job.player = "black"
            THEN Finish("transformed", _transform_for_black(parsedResult.value))
            ELSE Finish("parsed", parsedResult.value)

\* readline() returns the next line the engine wrote; the line with the
\* prompt ends the read
StreamReadLine ==
    /\ job.pc = "read"
    /\ stdout # <<>>
    /\ stdout' = Tail(stdout)
    /\ LET parts == Append(job.parts, Head(stdout)) IN
       IF Head(stdout).kind = "prompt" THEN SendReturns(parts)
       ELSE /\ job' = [job EXCEPT !.parts = parts]
            /\ UNCHANGED <<stdin, answer, response>>
    /\ UNCHANGED gnubg
    /\ UNCHANGED <<engineVars, codecVars, parseVars, xformVars, cubeVars, sendVars>>

\* no line for line_timeout after some line was read: if parts: break
StreamReadIdle ==
    /\ job.pc = "read"
    /\ stdout = <<>>
    /\ LineTimeoutEnds(job.parts)
    /\ SendReturns(job.parts)
    /\ UNCHANGED <<stdout, gnubg>>
    /\ UNCHANGED <<engineVars, codecVars, parseVars, xformVars, cubeVars, sendVars>>

\* no line at all until the deadline: the while condition ends the read
StreamReadDeadline ==
    /\ job.pc = "read"
    /\ stdout = <<>>
    /\ ~LineTimeoutEnds(job.parts)
    /\ SendReturns(job.parts)
    /\ UNCHANGED <<stdout, gnubg>>
    /\ UNCHANGED <<engineVars, codecVars, parseVars, xformVars, cubeVars, sendVars>>

\* the engine has answered its last command and takes the next one
EngineTakes ==
    /\ gnubg = <<>>
    /\ stdin # <<>>
    /\ gnubg' = Reply(Head(stdin))
    /\ stdin' = Tail(stdin)
    /\ UNCHANGED <<job, stdout, answer, response>>
    /\ UNCHANGED <<engineVars, codecVars, parseVars, xformVars, cubeVars, sendVars>>

\* the engine writes the next line of its answer
EngineWrites ==
    /\ gnubg # <<>>
    /\ stdout' = Append(stdout, Head(gnubg))
    /\ gnubg' = Tail(gnubg)
    /\ UNCHANGED <<job, stdin, answer, response>>
    /\ UNCHANGED <<engineVars, codecVars, parseVars, xformVars, cubeVars, sendVars>>

InitStream ==
    /\ RestIdle
    /\ board = NoBoard
    /\ posOut = NoOut
    /\ notation = <<>>
    /\ parsed = NoParse
    /\ EngineIdle

NextStream ==
    \/ \E player \in {"white", "black"}, illegal \in BOOLEAN : Begin(player, illegal)
    \/ StreamReadLine
    \/ StreamReadIdle
    \/ StreamReadDeadline
    \/ EngineTakes
    \/ EngineWrites

SpecStream == InitStream /\ [][NextStream]_vars

\* ================================================================ claims

\* the positions of the wire written by request r
ReqWrites(r) == {i \in DOMAIN wire : wire[i].req = r}

\* the least element of a non-empty set of numbers
Least(S) == CHOOSE x \in S : \A y \in S : x <= y

\* the engine call of request r has returned and its result is being handed over
Returned(r) == rq[r].pc = "ret" /\ rq[r].outcome # "not_ready"

\* a side's checkers as the data model counts them: on the points of its sign,
\* on its bar and borne off
SideTotal(b, side) ==
    Cardinality({<<i, c>> \in (1..NumPoints) \X (1..(2 * Checkers)) :
                    c <= (IF side = 1 THEN b.points[i] ELSE -b.points[i])})
        + b.bar[side] + b.borne_off[side]

FifteenPerSide(b) == SideTotal(b, 1) = Checkers /\ SideTotal(b, 2) = Checkers

\* ---- C1
\* C1: the commands of two requests (evaluate or evaluate_cube) are never
\* interleaved on the subprocess input: when a request has written before another
\* one, all its commands precede all of the other's, and it had returned (on
\* whichever path) before the other wrote its first command.
C1_NoInterleaving ==
    \A r1 \in Reqs, r2 \in Reqs :
        (/\ r1 # r2
         /\ ReqWrites(r1) # {}
         /\ ReqWrites(r2) # {}
         /\ Least(ReqWrites(r1)) < Least(ReqWrites(r2)))
        => /\ \A i \in ReqWrites(r1), j \in ReqWrites(r2) : i < j
           /\ rq[r1].pc \in {"ret", "done"}

\* a cube request queues on the lock while an evaluate request is at its hint
C1_Witness ==
    \E r1 \in Reqs, r2 \in Reqs :
        /\ rq[r1].pc = "sent" /\ rq[r1].kind = "evaluate" /\ rq[r1].k = LastCmd
        /\ rq[r2].pc = "waiting" /\ rq[r2].kind = "cube"
        /\ _lock = r1

\* ---- C2
\* C2: an evaluate request whose board does not hold exactly 15 checkers for
\* white or for black is answered by the Mock Strategy, and no command at all is
\* written to the subprocess for it.
C2_InvalidCountMock ==
    \A r \in Reqs :
        (/\ rq[r].kind = "evaluate"
         /\ rq[r].pc \in {"sent", "ret"}
         /\ rq[r].outcome # "not_ready"
         /\ ~FifteenPerSide(ReqBoards[rq[r].board]))
        => /\ rq[r].pc = "ret"
           /\ rq[r].outcome = "mock"
           /\ rq[r].log = <<>>
           /\ ReqWrites(r) = {}

\* with a running engine, a board of 14 white checkers got the mock result
C2_Witness ==
    \E r \in Reqs :
        /\ Returned(r) /\ rq[r].kind = "evaluate" /\ rq[r].acquired
        /\ process = "running"
        /\ SideTotal(ReqBoards[rq[r].board], 1) = Checkers - 1
        /\ rq[r].outcome = "mock"

\* ---- C3
\* C3: an evaluate request made once the engine is ready returns the Mock
\* Strategy's result, and never raises, when the hint text lacks the equity
\* marker, when the engine calls the position illegal, or when a step raises a
\* transport fault; after an illegal position no further command is sent.
C3_FallbackNeverRaises ==
    \A r \in Reqs :
        (Returned(r) /\ rq[r].kind = "evaluate")
        => /\ rq[r].outcome # "error"
           /\ rq[r].output \in {"", "plain"} => rq[r].outcome = "mock"
           /\ rq[r].fault => rq[r].outcome = "mock"
           /\ rq[r].illegal =>
                /\ rq[r].outcome = "mock"
                /\ rq[r].log # <<>>
                /\ rq[r].log[Len(rq[r].log)].cmd = "set board"
                /\ \A i \in DOMAIN rq[r].log :
                      rq[r].log[i].cmd \notin {"set turn", "show board", "set dice", "hint"}

\* the engine called the position illegal and the request got the mock result
C3_Witness ==
    \E r \in Reqs :
        /\ Returned(r) /\ rq[r].kind = "evaluate"
        /\ rq[r].illegal /\ rq[r].outcome = "mock" /\ Len(rq[r].log) = 3

\* ---- C4
\* C4: a request with a send that timed out (no complete response within the
\* send's timeout), on whichever command of the sequence, is answered by the
\* Mock Strategy.
C4_TimeoutAlwaysMock ==
    \A r \in Reqs :
        (Returned(r) /\ rq[r].timedOut # "none") => rq[r].outcome = "mock"

\* ---- C5
\* C5: a request arriving before start() has completed is rejected as "engine
\* not ready" and writes no command; the engine is ready only after the banner
\* read and both default search-depth commands (or in mock mode); and "not
\* ready" is the only failure a caller observes.
C5_ReadinessGate ==
    /\ \A r \in Reqs :
        /\ (~_ready /\ rq[r].pc # "idle")
            => /\ rq[r].pc \in {"ret", "done"}
               /\ rq[r].pc = "ret" => rq[r].outcome = "not_ready"
               /\ ReqWrites(r) = {}
        /\ rq[r].pc = "ret"
            => rq[r].outcome \in {"not_ready", "mock", "parsed", "transformed", "cube"}
        /\ rq[r].outcome = "not_ready" => rq[r].log = <<>> /\ ReqWrites(r) = {}
    /\ _ready =>
        \/ version = "mock"
        \/ /\ lifePc \in {"started", "quitting", "stopped"}
           /\ Len(wire) >= 2
           /\ wire[1] = Wrote(0, "set evaluation chequer eval plies")
           /\ wire[2] = Wrote(0, "set evaluation cubedecision eval plies")

\* a request arrived while start() was still sending the defaults, and got the 503
C5_Witness ==
    \E r \in Reqs :
        /\ rq[r].pc = "ret" /\ rq[r].outcome = "not_ready"
        /\ lifePc = "depth2" /\ process = "running"

\* ---- C6
\* C6: once stop() has run the channel is terminated and no longer reported as
\* ready (the health answer is not "ok", the readiness gate is closed).
C6_StoppedNotReady ==
    lifePc = "stopped" =>
        /\ process # "running"
        /\ ~is_ready
        /\ health.status # "ok"

\* ---- C7
\* C7: when the engine binary is not found, start() does not fail: the channel
\* is ready in mock mode with version "mock", and every evaluate and
\* evaluate_cube request is answered by the Mock Strategy without taking the
\* lock and without a command written.
C7_MockMode ==
    /\ launch = "notfound" =>
        /\ lifePc \in {"started", "stopped"}
        /\ is_ready
        /\ version = "mock"
        /\ process = "none"
        /\ wire = <<>>
        /\ _lock = 0
        /\ waiters = <<>>
        /\ \A r \in Reqs :
            /\ rq[r].pc \in {"idle", "ret", "done"}
            /\ rq[r].pc = "ret" =>
                 /\ rq[r].outcome = "mock"
                 /\ ~rq[r].acquired
                 /\ rq[r].log = <<>>
    /\ version = "mock" => launch = "notfound"

\* in mock mode a cube request on the valid starting position got the mock result
C7_Witness ==
    \E r \in Reqs :
        /\ launch = "notfound"
        /\ rq[r].pc = "ret" /\ rq[r].kind = "cube" /\ rq[r].board = 1
        /\ rq[r].outcome = "mock"

\* ---- C8
\* bit i (0-based) of the packed identifier, read least significant bit first
PackedBit(data, i) == (data[(i \div 8) + 1] \div Pow2(i % 8)) % 2

UnpackBits(data) == [i \in 1..(8 * Len(data)) |-> PackedBit(data, i - 1)]

\* the positions of the 0s of a bit sequence: each ends a run of 1s
Zeros(bits) == {i \in 1..Len(bits) : bits[i] = 0}

\* the length of the n-th run of 1s of a bit sequence (0 when there is none)
RunAt(bits, n) ==
    LET zs == Zeros(bits)
        ends == {i \in zs : Cardinality({j \in zs : j <= i}) = n}
    IN  IF ends = {} THEN 0
        ELSE LET e == CHOOSE i \in ends : TRUE
                 before == {j \in zs : j < e}
                 p == IF before = {} THEN 0
                      ELSE CHOOSE j \in before : \A k \in before : k <= j
             IN  e - 1 - p

\* the board read back from the bit layout: runs 1..24 are white's points 1..24,
\* run 25 white's bar, runs 26..49 black's points 24..1, run 50 black's bar
DecodePosition(data) ==
    LET bits == UnpackBits(data) IN
    [white |-> [i \in 1..NumPoints |-> RunAt(bits, i)],
     black |-> [i \in 1..NumPoints |-> RunAt(bits, 2 * NumPoints + 2 - i)],
     bar |-> <<RunAt(bits, NumPoints + 1), RunAt(bits, 2 * NumPoints + 2)>>]

\* C8: for a board with 15 checkers per side, decoding the bit layout that
\* _make_position_id packed gives back the white count and the black count of
\* every point and both bar counts.
C8_RoundTrip ==
    (posOut.stage = "encoded" /\ FifteenPerSide(board))
    => LET d == DecodePosition(posOut.data) IN
       /\ \A i \in 1..NumPoints :
            /\ d.white[i] = (IF board.points[i] > 0 THEN board.points[i] ELSE 0)
            /\ d.black[i] = (IF board.points[i] < 0 THEN -board.points[i] ELSE 0)
       /\ d.bar = board.bar

\* a legal board with all 30 checkers in play (80 bits used), black on the bar
\* and the starting position changed on both sides, was encoded
C8_Witness ==
    /\ posOut.stage = "encoded"
    /\ FifteenPerSide(board)
    /\ board.borne_off = <<0, 0>>
    /\ board.bar[2] > 0
    /\ board.points[1] > 0

\* ---- C9
\* C9: whatever the board (sparse, full, or with more than 15 checkers a side),
\* the packed bit sequence is exactly 80 bits in exactly 10 bytes, bit i stored
\* in byte i / 8 at bit position i % 8.
C9_EightyBitsTenBytes ==
    posOut.stage = "encoded"
    => /\ Len(posOut.bits) = 80
       /\ Len(posOut.data) = 10
       /\ \A j \in 1..Len(posOut.data) : posOut.data[j] \in 0..255
       /\ \A i \in 0..79 : PackedBit(posOut.data, i) = posOut.bits[i + 1]
       /\ \A i \in 1..Min(80, Len(PositionRuns(board.points, board.bar))) :
             posOut.bits[i] = PositionRuns(board.points, board.bar)[i]

\* a board with more than 15 checkers a side, whose runs exceed 80 bits, was encoded
C9_Witness ==
    /\ posOut.stage = "encoded"
    /\ SideTotal(board, 1) > Checkers
    /\ SideTotal(board, 2) > Checkers
    /\ Len(PositionRuns(board.points, board.bar)) > 80

\* ---- C10
\* a parsed move the split step applies to: no bear-off, die total in 7..12
Compound(m) == ~m.is_bear_off /\ m.die_used >= 7 /\ m.die_used <= 12

\* the number of entries a raw move has after the split step
EntriesOf(m) == IF Compound(m) THEN 2 ELSE 1

\* the entries before those of raw move k
EntriesBefore(raw, k) == SumSeq([j \in 1..(k - 1) |-> EntriesOf(raw[j])])

\* the smallest d1 in 1..6 with total - d1 in 1..6
SmallestFirstDie(total) ==
    Least({d \in 1..6 : total - d >= 1 /\ total - d <= 6})

\* C10: a parsed non-bear-off move with die total in 7..12 is replaced by exactly
\* two moves, with dice d1 and total - d1 (both in 1..6, d1 the smallest such
\* value): the first from the from-point to from-point +/- d1 (by whether the
\* to-point is above the from-point), the second from there to the to-point;
\* only the second carries the move's hit flag.
C10_SplitCompound ==
    parsed.stage = "parsed"
    => /\ Len(parsed.moves) = EntriesBefore(parsed.raw, Len(parsed.raw) + 1)
       /\ \A k \in DOMAIN parsed.raw :
            Compound(parsed.raw[k]) =>
                LET m == parsed.raw[k]
                    a == parsed.moves[EntriesBefore(parsed.raw, k) + 1]
                    b == parsed.moves[EntriesBefore(parsed.raw, k) + 2]
                    d1 == SmallestFirstDie(m.die_used)
                IN  /\ a.die_used = d1 /\ b.die_used = m.die_used - d1
                    /\ a.die_used \in 1..6 /\ b.die_used \in 1..6
                    /\ a.from_point = m.from_point
                    /\ a.to_point = (IF m.to_point > m.from_point
                                     THEN m.from_point + d1 ELSE m.from_point - d1)
                    /\ b.from_point = a.to_point
                    /\ b.to_point = m.to_point
                    /\ ~a.is_hit /\ b.is_hit = m.is_hit
                    /\ ~a.is_bear_off /\ ~b.is_bear_off

\* "13/1*(2)" after another token: a hitting move of die total 12, twice, was split
C10_Witness ==
    /\ parsed.stage = "parsed"
    /\ \E k \in DOMAIN parsed.raw :
        /\ k > 1
        /\ Compound(parsed.raw[k])
        /\ parsed.raw[k].is_hit
        /\ parsed.raw[k].die_used = 12
    /\ \E k \in DOMAIN parsed.raw :
        /\ Compound(parsed.raw[k])
        /\ parsed.raw[k].to_point > parsed.raw[k].from_point

\* ---- C11
\* a step the engine writes for a legal play, in the frame of the player on
\* roll: down from a point to a lower one, in from the bar to the opponent's
\* home board (19..24), or off from the player's home board (1..6)
LegalStep(from, to) ==
    \/ from.kind = "num" /\ to.kind = "num" /\ from.n > to.n
    \/ from.kind = "bar" /\ to.kind = "num" /\ to.n \in 19..24
    \/ from.kind = "num" /\ to.kind = "off" /\ from.n \in 1..6

EngineNotation(nota) ==
    \A t \in DOMAIN nota :
        \A i \in 1..(Len(nota[t].segs) - 1) :
            LegalStep(nota[t].segs[i], nota[t].segs[i + 1])

\* C11: every Move of a Play returned by _parse_notation has a die value in
\* 1..6, for every notation the engine writes for a legal play: bar entries
\* ("bar/<to>", from-point 0), bear-offs and chained or repeated tokens included.
C11_DieInRange ==
    (parsed.stage = "parsed" /\ EngineNotation(notation))
    => \A k \in DOMAIN parsed.moves : parsed.moves[k].die_used \in 1..6

\* ---- C12
\* all the moves of a result: those of the best play and of every ranked play
PlaysOf(res) == <<res.best_play>> \o [i \in DOMAIN res.all_plays |-> res.all_plays[i].play]

\* the equities of a result: the best equity, then each ranked play's rank,
\* equity, win probability and equity difference
NumbersOf(res) ==
    <<res.best_equity>> \o
    [i \in DOMAIN res.all_plays |->
        <<res.all_plays[i].rank, res.all_plays[i].equity,
          res.all_plays[i].win_probability, res.all_plays[i].equity_difference>>]

\* C12: after the transform was applied twice, every Move (from-point,
\* to-point, die, hit flag, bear-off flag), every equity and the best play are
\* those of the original result.
C12_TwiceIsIdentity ==
    Len(shown) >= 2
    => /\ NumbersOf(shown[2]) = NumbersOf(result.value)
       /\ \A p \in DOMAIN PlaysOf(result.value) :
            PlaysOf(shown[2])[p].moves = PlaysOf(result.value)[p].moves

\* C12 as amended: after the transform was applied twice every Move has its
\* original from-point, die, hit flag and bear-off flag, every Move that is no
\* bear-off has its original to-point, and every equity, rank, win probability
\* and equity difference is the original one; a bear-off Move's to-point is
\* not restored: it is the from-point plus the die.
C12_TwiceRestoresButBearOff ==
    Len(shown) >= 2
    => /\ NumbersOf(shown[2]) = NumbersOf(result.value)
       /\ \A p \in DOMAIN PlaysOf(result.value) :
            LET was == PlaysOf(result.value)[p].moves
                now == PlaysOf(shown[2])[p].moves
            IN  /\ Len(now) = Len(was)
                /\ \A i \in DOMAIN was :
                     /\ now[i].from_point = was[i].from_point
                     /\ now[i].die_used = was[i].die_used
                     /\ now[i].is_hit = was[i].is_hit
                     /\ now[i].is_bear_off = was[i].is_bear_off
                     /\ now[i].to_point = (IF was[i].is_bear_off
                                           THEN was[i].from_point + was[i].die_used
                                           ELSE was[i].to_point)

\* "bar/22 6/off" with a non-zero equity went through the transform twice
C12_Witness ==
    /\ Len(shown) >= 2
    /\ result.value.best_equity # 0
    /\ \E i \in DOMAIN result.value.best_play.moves :
          result.value.best_play.moves[i].is_bear_off
    /\ \E i \in DOMAIN result.value.best_play.moves :
          result.value.best_play.moves[i].from_point = 0

\* ---- C13
\* the transform of one Move as C13 states it
MoveTransformed(was, now) ==
    /\ was.from_point \in 1..NumPoints => now.from_point = 25 - was.from_point
    /\ was.from_point = 0 => now.from_point = 25
    /\ was.is_bear_off => now.to_point = now.from_point + was.die_used
    /\ (~was.is_bear_off /\ was.to_point \in 1..NumPoints)
         => now.to_point = 25 - was.to_point
    /\ now.die_used = was.die_used
    /\ now.is_hit = was.is_hit
    /\ now.is_bear_off = was.is_bear_off

\* C13: the transform maps a Move's point p in 1..24 to 25 - p and the
\* from-point 0 (bar) to 25, puts a bear-off Move's to-point at the transformed
\* from-point plus the die, keeps die, hit flag and bear-off flag, negates the
\* best equity and every ranked play's equity, keeps rank and equity
\* difference; and the result handed to it is not modified.
C13_TransformMapping ==
    /\ [](Len(shown) >= 1 =>
            LET was == result.value
                now == shown[1]
            IN  /\ now.best_equity = -was.best_equity
                /\ Len(now.all_plays) = Len(was.all_plays)
                /\ \A r \in DOMAIN was.all_plays :
                     /\ now.all_plays[r].equity = -was.all_plays[r].equity
                     /\ now.all_plays[r].rank = was.all_plays[r].rank
                     /\ now.all_plays[r].equity_difference
                            = was.all_plays[r].equity_difference
                /\ \A p \in DOMAIN PlaysOf(was) :
                     /\ Len(PlaysOf(now)[p].moves) = Len(PlaysOf(was)[p].moves)
                     /\ \A i \in DOMAIN PlaysOf(was)[p].moves :
                          MoveTransformed(PlaysOf(was)[p].moves[i],
                                          PlaysOf(now)[p].moves[i]))
    /\ [][shown' # shown =>
            /\ result' = result
            /\ \A k \in DOMAIN shown : shown'[k] = shown[k]]_vars

\* a result of two ranked plays, with a bar entry, a bear-off, a hit and a
\* non-zero equity, went through the transform
C13_Witness ==
    /\ Len(shown) >= 1
    /\ Len(result.value.all_plays) = 2
    /\ result.value.all_plays[2].equity # 0
    /\ result.value.all_plays[2].equity_difference # 0
    /\ \E i \in DOMAIN result.value.best_play.moves :
          result.value.best_play.moves[i].from_point = 0
    /\ \E i \in DOMAIN result.value.best_play.moves :
          result.value.best_play.moves[i].is_bear_off
    /\ \E i \in DOMAIN result.value.all_plays[2].play.moves :
          result.value.all_plays[2].play.moves[i].is_hit

\* ---- C14
\* request r wrote "set turn <n>"
SentTurn(r, n) ==
    \E i \in DOMAIN rq[r].log : rq[r].log[i] = Cmd("set turn", <<n>>)

\* C14: an evaluate result taken from the engine goes through the coordinate
\* transform exactly when the request sent "set turn 1" (its player tag is not
\* "white"); when it sent "set turn 0" the parsed result is returned as it is.
C14_TransformIffTurnOne ==
    \A r \in Reqs :
        (/\ Returned(r)
         /\ rq[r].kind = "evaluate"
         /\ rq[r].outcome \in {"parsed", "transformed"})
        => /\ SentTurn(r, 1) <=> rq[r].outcome = "transformed"
           /\ SentTurn(r, 0) <=> rq[r].outcome = "parsed"

\* ---- C15
\* C15: _parse_cube takes equity 0 for a missing no-double label, 0 for a
\* missing double/take label and 1 for a missing double/pass label, and
\* recommends the option of greatest equity, a tie going to no_double, then
\* double_take, then double_pass.
C15_CubeDefaultsAndTies ==
    cubeRes.stage = "parsed"
    => LET v == cubeRes.value
           eq == [l \in CubeLabels |->
                    CASE l = "no_double" -> v.no_double_equity
                      [] l = "double_take" -> v.double_take_equity
                      [] OTHER -> v.double_pass_equity]
           order == <<"no_double", "double_take", "double_pass">>
           greatest == {k \in 1..3 : \A j \in 1..3 : eq[order[j]] <= eq[order[k]]}
       IN  /\ LabelLines(cubeText, "no_double") = {} => v.no_double_equity = 0
           /\ LabelLines(cubeText, "double_take") = {} => v.double_take_equity = 0
           /\ LabelLines(cubeText, "double_pass") = {} => v.double_pass_equity = 1000
           /\ v.recommendation = order[Least(greatest)]

\* a text without the double/pass label, the other two equities tied at 1: the
\* three options tie and no_double is recommended
C15_Witness ==
    /\ cubeRes.stage = "parsed"
    /\ LabelLines(cubeText, "double_pass") = {}
    /\ cubeRes.value.no_double_equity = 1000
    /\ cubeRes.value.double_take_equity = 1000
    /\ cubeRes.value.recommendation = "no_double"

\* ---- C16
\* C16: a cube request whose board does not hold 15 checkers a side, or whose
\* position the engine calls illegal, or whose command sequence hits a
\* transport fault, is answered with the Mock Strategy's CubeResult and never
\* fails; with an invalid checker count no command is written for it.
C16_CubeFallback ==
    \A r \in Reqs :
        (Returned(r) /\ rq[r].kind = "cube")
        => /\ rq[r].outcome # "error"
           /\ rq[r].fault => rq[r].outcome = "mock"
           /\ rq[r].illegal => rq[r].outcome = "mock"
           /\ ~FifteenPerSide(ReqBoards[rq[r].board])
                => /\ rq[r].outcome = "mock"
                   /\ rq[r].log = <<>>
                   /\ ReqWrites(r) = {}

\* ---- C17
\* C17: when the hint text is malformed or does not parse (it holds the equity
\* marker but no line that parses as a numbered ranked play, say), evaluate
\* returns the Mock Strategy's response, not a result built by the parser.
C17_UnparseableHintMock ==
    \A r \in Reqs :
        (/\ Returned(r)
         /\ rq[r].kind = "evaluate"
         /\ rq[r].output \in {"", "plain", "EqNoPlay", "EqBad"})
        => rq[r].outcome = "mock"

\* ---- C18
\* the commands C18 names, in the order it gives them
StatedOrder ==
    << "set evaluation chequer eval plies", "new game", "set board", "set turn",
       "set dice", "hint" >>

\* the places of a command in the log of request r
PlacesOf(r, name) == {i \in DOMAIN rq[r].log : rq[r].log[i].cmd = name}

\* C18: within an evaluate request that reaches the engine the commands are
\* written in the order set search depth, new game, set board <position id>,
\* set turn, set dice, hint (the code also writes "show board" between set turn
\* and set dice); a command is written only once the response read of the
\* previous one has ended; hint is written at most once and is the last command.
C18_CommandOrder ==
    /\ [](\A r \in Reqs :
            rq[r].kind = "evaluate" =>
              /\ \A a \in 1..6 :
                    /\ Cardinality(PlacesOf(r, StatedOrder[a])) <= 1
                    /\ \A b \in (a + 1)..6 :
                        PlacesOf(r, StatedOrder[b]) # {} =>
                            /\ PlacesOf(r, StatedOrder[a]) # {}
                            /\ \A i \in PlacesOf(r, StatedOrder[a]),
                                  j \in PlacesOf(r, StatedOrder[b]) : i < j
              /\ \A i \in DOMAIN rq[r].log :
                    /\ rq[r].log[i].cmd \in
                          {StatedOrder[a] : a \in 1..6} \cup {"show board"}
                    /\ rq[r].log[i].cmd = "hint" => i = Len(rq[r].log)
                    /\ rq[r].log[i].cmd = "set board" =>
                          rq[r].log[i].arg =
                             _make_position_id(ReqBoards[rq[r].board].points,
                                               ReqBoards[rq[r].board].bar)
              /\ rq[r].pc = "sent" => rq[r].k = Len(rq[r].log))
    /\ [][\A r \in Reqs :
            (rq[r].kind = "evaluate" /\ Len(rq'[r].log) > Len(rq[r].log))
            => /\ Len(rq'[r].log) = Len(rq[r].log) + 1
               /\ rq[r].log # <<>> => rq[r].pc = "sent"]_vars

\* an evaluate request wrote its commands up to the hint and got the parsed result
C18_Witness ==
    \E r \in Reqs :
        /\ Returned(r) /\ rq[r].kind = "evaluate"
        /\ rq[r].outcome = "parsed"
        /\ Len(rq[r].log) = LastCmd
        /\ rq[r].log[LastCmd].cmd = "hint"

\* ---- C19
\* what ends a response read: a line with the prompt marker, a line timeout
\* after at least one line, the overall timeout, the end of the stream (an
\* empty read, or a read error)
EndEvents == {"prompt", "idle", "deadline", "eof", "error"}

\* C19: the response read of a send ends at the first of these events and not
\* before: a line with the prompt marker "(gnubg)" was read; a line read timed
\* out with at least one line accumulated; the overall timeout elapsed; the
\* stream ended.  A line timeout with no line accumulated does not end it.  The
\* text returned is every line read, in order.
C19_ReadEnds ==
    /\ send.pc = "read" =>
          /\ send.seen \cap EndEvents = {}
          /\ \A i \in DOMAIN send.parts : send.parts[i] # "prompt"
          /\ send.clock < TimeoutTicks
    /\ (send.pc = "idle" /\ send.ended \notin {"none", "raised"}) =>
          /\ send.ended \in send.seen \cap EndEvents
          /\ send.ended = "prompt" =>
                /\ send.parts # <<>>
                /\ \A i \in DOMAIN send.parts :
                      send.parts[i] = "prompt" <=> i = Len(send.parts)
          /\ send.ended # "prompt" =>
                \A i \in DOMAIN send.parts : send.parts[i] # "prompt"
          /\ send.ended = "idle" => send.parts # <<>>
          /\ send.ended = "deadline" => send.clock = TimeoutTicks
          /\ send.text = send.parts

\* a line timeout with nothing read did not end the read; two lines came
\* later, and the next line timeout ended it
C19_Witness ==
    /\ send.pc = "idle"
    /\ send.ended = "idle"
    /\ "empty" \in send.seen
    /\ Len(send.text) >= 2

\* ---- C20
\* C20: every send ends within its overall timeout whatever the engine does
\* (it writes nothing, writes lines without a prompt for ever, or stops reading
\* its input): at every point of a send the clock is within the timeout and a
\* step of the send itself is possible without anything from the engine.
C20_SendEndsWithinTimeout ==
    /\ send.clock <= TimeoutTicks
    /\ send.pc # "idle" => ENABLED SendStep

\* ---- C21
\* the request is inside its async with block: it has taken the lock and its
\* engine call has not returned
InProgress(r) == rq[r].pc = "sent" /\ rq[r].acquired

\* C21: the lock is held only by a request that is between acquiring it and
\* returning: the holder, if any, is a request in progress, so whenever no
\* request is in progress the lock is free; and a request whose engine call
\* has returned, by whichever exit, does not hold it.
C21_LockReleasedOnExit ==
    /\ _lock \in {0} \cup Reqs
    /\ \A r \in Reqs : _lock = r => InProgress(r)
    /\ (\A r \in Reqs : ~InProgress(r)) => _lock = 0
    /\ \A r \in Reqs : rq[r].pc \in {"ret", "done", "idle", "waiting"} => _lock # r

\* a request that took the lock has returned through the except clause; the
\* lock is free and another request is waiting for it
C21_Witness ==
    \E r, s \in Reqs :
        /\ rq[r].pc = "ret"
        /\ rq[r].acquired
        /\ rq[r].fault
        /\ rq[s].pc = "waiting"
        /\ _lock = 0

\* ---- C22
\* the rank-1 play has equity difference 0 and every other play has the
\* rank-1 play's equity minus its own, on the equities of the response itself
DifferencesAgree(res) ==
    \A i \in DOMAIN res.all_plays :
        LET rp == res.all_plays[i] IN
        IF rp.rank = 1 THEN rp.equity_difference = 0
        ELSE \A j \in DOMAIN res.all_plays :
                res.all_plays[j].rank = 1 =>
                    rp.equity_difference = res.all_plays[j].equity - rp.equity

\* C22: in every engine-derived result evaluate returns, for white (the parsed
\* result) and for black (the parsed result transformed once) alike, the
\* rank-1 play has equity difference 0 and a play of rank > 1 has the returned
\* rank-1 equity minus its own returned equity.
C22_EquityDifference ==
    result.stage = "parsed" =>
        /\ DifferencesAgree(result.value)
        /\ shown # <<>> => DifferencesAgree(shown[1])

\* ---- C23
\* the token "<from>/<to>" of one transformed Move: "bar" as the source when
\* the Move enters from the bar (was.from_point = 0), "off" as the
\* destination of a bear-off, the transformed points otherwise, and '*' for a hit
RenderedAs(tok, was, now) ==
    /\ tok.count = 1
    /\ Len(tok.segs) = 2
    /\ tok.segs[1] = IF was.from_point = 0 THEN Seg("bar", 0, FALSE)
                     ELSE Num(now.from_point)
    /\ tok.segs[2] = IF now.is_bear_off THEN Seg("off", 0, now.is_hit)
                     ELSE Seg("num", now.to_point, now.is_hit)

\* C23: after the transform each play's notation is rebuilt from its
\* transformed Moves, one "<from>/<to>" token per Move with '*' appended for a
\* hit, a Move entering from the bar rendered with the literal "bar" as its
\* source and a bear-off Move with the literal "off" as its destination.
C23_NotationRebuilt ==
    Len(shown) >= 1 =>
        \A p \in DOMAIN PlaysOf(result.value) :
            LET was == PlaysOf(result.value)[p]
                now == PlaysOf(shown[1])[p]
            IN  /\ Len(now.notation) = Len(now.moves)
                /\ \A i \in DOMAIN now.moves :
                      RenderedAs(now.notation[i], was.moves[i], now.moves[i])

\* ---- C24
\* C24: the text a send returns holds only lines the engine wrote in answer to
\* that send's command: a line written for an earlier command, of this or of
\* an earlier request, is never part of it.
C24_OwnOutputOnly ==
    \A i \in DOMAIN answer.text : answer.text[i].of = answer.of

\* ---- C25
\* C25: every response evaluate returns (parsed, transformed for black, or
\* mock) has a non-empty ranked list whose first entry has rank 1, best_play
\* equal to that entry's play and best_equity equal to that entry's equity.
C25_BestIsFirstRanked ==
    response.stage \in {"parsed", "transformed", "mock"} =>
        /\ response.value.all_plays # <<>>
        /\ response.value.all_plays[1].rank = 1
        /\ response.value.best_play = response.value.all_plays[1].play
        /\ response.value.best_equity = response.value.all_plays[1].equity

====
